---- MODULE Spec2Model ----
(***************************************************************************)
(* A model of the BibLaTeX-to-Markdown import plugin.                      *)
(*                                                                         *)
(* Strings are sequences of one-character strings, so that the string      *)
(* functions of the plugin (sanitizeString, buildAuthorTag, processAuthors,*)
(* the template replace) are computed character by character, as the code  *)
(* computes them.  The import run (importBibTeX) is a state machine over   *)
(* the vault, with one action per await-delimited step of the handler.     *)
(***************************************************************************)
EXTENDS Integers, Sequences, FiniteSets, TLC

VARIABLES
    \* ---- the import run (importBibTeX) and the vault it works on ----
    pc,            \* position of importBibTeX: idle, template, file, entry, done, crashed (off: not modelled running)
    vaultExt,      \* the vault's files, in getFiles() order: each one's extension
    content,       \* what read + parse give for each vault file, once read
    entryLimit,    \* settings.entryLimit
    strict,        \* whether the store's create rejects an existing path
    folderExists,  \* whether "LN Literature Notes" exists in the vault
    notes,         \* the note file names that exist in that folder
    files,         \* the run's `files`: indices of the vault's .bib files
    fileIdx,       \* index into files of the file being processed
    todo,          \* the current file's entries the inner loop runs over
    entryIdx,      \* index into todo of the next entry
    tpl,           \* the host's template folder setting and which templates exist
    vault0,        \* the folder and notes as they were when the run started
    calls,         \* the store calls made so far, in order
    notices,       \* the user notices issued so far
    errors,        \* the console.error lines so far
    \* ---- the settings (entryLimit above is one of them) and the settings tab ----
    filePrefix,    \* settings.filePrefix
    fileDirectory, \* settings.fileDirectory
    stored,        \* the plugin data in the host's storage: what loadData returns
    lastEdit,      \* the last onChange of the settings tab: field, text, and what it did
    \* ---- the harness that applies the pure functions to drawn inputs ----
    arg,           \* the input drawn by Init
    res,           \* the results computed so far
    step           \* position of the harness

setVars == <<filePrefix, fileDirectory, stored, lastEdit>>
runVars == <<pc, vaultExt, content, entryLimit, strict, folderExists, notes,
             files, fileIdx, todo, entryIdx, tpl, vault0, calls, notices, errors,
             setVars>>
fnVars == <<arg, res, step>>
vars == <<runVars, fnVars>>

----------------------------------------------------------------------------
(* Bounds of the model *)

\* longest input string of the sanitizer harness
MaxLen == 4

\* most files in the vault
MaxFiles == 2

\* most entries in one bibliography file
MaxEntries == 2

\* largest entryLimit setting
MaxLimit == 2

----------------------------------------------------------------------------
(* Strings as sequences of characters *)

Min(a, b) == IF a < b THEN a ELSE b

\* all sequences over S of length at most n
SeqsUpTo(S, n) == UNION {[1..k -> S] : k \in 0..n}

\* JavaScript's \s and the characters trim() removes, as far as the model's
\* alphabets have them
WhiteSpace == {" ", "\t", "\n"}

IsWS(c) == c \in WhiteSpace

\* the character class [\/\\:*?"<>|]
InvalidChars == {"/", "\\", ":", "*", "?", "\"", "<", ">", "|"}

\* s.replace(/[S]/g, "")
RemoveChars(s, S) == SelectSeq(s, LAMBDA c : c \notin S)

\* s.replace(/c/g, d) for single characters c and d
ReplaceChar(s, c, d) == [i \in 1..Len(s) |-> IF s[i] = c THEN d ELSE s[i]]

RECURSIVE TrimLeft(_)
TrimLeft(s) ==
    IF s = <<>> THEN <<>>
    ELSE IF IsWS(Head(s)) THEN TrimLeft(Tail(s)) ELSE s

RECURSIVE TrimRight(_)
TrimRight(s) ==
    IF s = <<>> THEN <<>>
    ELSE IF IsWS(s[Len(s)]) THEN TrimRight(SubSeq(s, 1, Len(s) - 1)) ELSE s

\* String.prototype.trim
Trim(s) == TrimRight(TrimLeft(s))

\* s.replace(/C+/g, rep): every maximal run of characters of C becomes rep
RECURSIVE CollapseRuns(_, _, _)
CollapseRuns(s, C, rep) ==
    IF s = <<>> THEN <<>>
    ELSE IF Head(s) \in C
         THEN IF Len(s) > 1 /\ s[2] \in C
              THEN CollapseRuns(Tail(s), C, rep)
              ELSE rep \o CollapseRuns(Tail(s), C, rep)
         ELSE <<Head(s)>> \o CollapseRuns(Tail(s), C, rep)

----------------------------------------------------------------------------
(* sanitizeString *)

\* A variant that trims before it removes the unsafe characters.
SanitizeTrimFirst(input, preserveSpaces, forTags) ==
    LET cleaned == RemoveChars(ReplaceChar(RemoveChars(Trim(input), InvalidChars),
                                           ".", "_"), {"(", ")"})
        spaced == IF ~preserveSpaces
                  THEN CollapseRuns(cleaned, WhiteSpace,
                                    IF forTags THEN <<"_">> ELSE <<" ">>)
                  ELSE cleaned
    IN  IF forTags THEN CollapseRuns(spaced, {"_"}, <<"_">>) ELSE spaced

\* sanitizeString(input, preserveSpaces = false, forTags = false)
sanitizeString(input, preserveSpaces, forTags) ==
    LET cleaned == Trim(RemoveChars(ReplaceChar(RemoveChars(input, InvalidChars),
                                                ".", "_"), {"(", ")"}))
        spaced == IF ~preserveSpaces
                  THEN CollapseRuns(cleaned, WhiteSpace,
                                    IF forTags THEN <<"_">> ELSE <<" ">>)
                  ELSE cleaned
    IN  IF forTags THEN CollapseRuns(spaced, {"_"}, <<"_">>) ELSE spaced

----------------------------------------------------------------------------
(* The template stage: templateContent.replace(/{{(.*?)}}/g, replacer) *)

\* Characters "." does not match in a JavaScript regular expression.
LineTerminators == {"\n"}

\* The least j >= i with s[j] = s[j+1] = "}" and no line terminator in
\* s[i..j-1]: where the lazy (.*?) started at i ends.  0 when there is none.
RECURSIVE FindClose(_, _)
FindClose(s, i) ==
    IF i + 1 > Len(s) THEN 0
    ELSE IF s[i] = "}" /\ s[i + 1] = "}" THEN i
    ELSE IF s[i] \in LineTerminators THEN 0
    ELSE FindClose(s, i + 1)

\* The matches of /{{(.*?)}}/g in s from position p on, with the text between
\* them: a sequence of segments, each a matched token (tok, its text and the
\* captured key) or a stretch of text no match covers.
RECURSIVE Scan(_, _, _)
Scan(s, p, from) ==
    \* from: start of the pending unmatched text; p: where the next match may start
    IF p + 1 > Len(s)
    THEN IF from > Len(s) THEN <<>>
         ELSE <<[tok |-> FALSE, text |-> SubSeq(s, from, Len(s)), key |-> <<>>]>>
    ELSE IF s[p] = "{" /\ s[p + 1] = "{" /\ FindClose(s, p + 2) # 0
         THEN LET j == FindClose(s, p + 2)
                  before == IF from < p
                            THEN <<[tok |-> FALSE, text |-> SubSeq(s, from, p - 1),
                                    key |-> <<>>]>>
                            ELSE <<>>
              IN  before
                  \o <<[tok |-> TRUE, text |-> SubSeq(s, p, j + 1),
                        key |-> SubSeq(s, p + 2, j - 1)]>>
                  \o Scan(s, j + 2, j + 2)
         ELSE Scan(s, p + 1, from)

Segments(s) == Scan(s, 1, 1)

RECURSIVE Flatten(_)
Flatten(ss) == IF ss = <<>> THEN <<>> ELSE Head(ss) \o Flatten(Tail(ss))

\* Property names every object literal inherits from Object.prototype, and what
\* String() makes of the inherited value.  An alphabet element longer than one
\* character stands for that run of letters.
ProtoKeys == {<<"constructor">>}

ProtoText(k) == <<"function Object() ", "{", " [native code] ", "}">>

\* replacements[name]: the own property, else the inherited one, else undefined
Undefined == <<"undefined">>

PropertyOf(repl, name) ==
    IF name \in DOMAIN repl THEN repl[name]
    ELSE IF name \in ProtoKeys THEN ProtoText(name)
    ELSE Undefined

\* A replacer that keeps the token when the value is falsy (val || token).
ReplacerFalsy(repl, key) ==
    LET val == PropertyOf(repl, Trim(key))
    IN  IF val = Undefined \/ val = <<>> THEN <<"{", "{">> \o key \o <<"}", "}">>
        ELSE val

\* the replacer: (_, key) => { val = replacements[key.trim()]; ... }
Replacer(repl, key) ==
    LET val == PropertyOf(repl, Trim(key))
    IN  IF val = Undefined THEN <<"{", "{">> \o key \o <<"}", "}">>
        ELSE val

\* what replace puts for each segment of the template
Pieces(template, repl) ==
    LET segs == Segments(template)
    IN  [i \in 1..Len(segs) |->
            IF segs[i].tok THEN Replacer(repl, segs[i].key) ELSE segs[i].text]

\* A variant that substitutes once more in the text the first pass gives.
PopulateAgain(template, repl) ==
    Flatten(Pieces(Flatten(Pieces(template, repl)), repl))

\* populatedContent
Populate(template, repl) == Flatten(Pieces(template, repl))

----------------------------------------------------------------------------
(* Splitting *)

\* toLowerCase, on the letters the model's alphabets have
Lower(c) ==
    CASE c = "A" -> "a" [] c = "N" -> "n" [] c = "D" -> "d" [] c = "U" -> "u"
      [] c = "F" -> "f" [] c = "G" -> "g" [] c = "T" -> "t" [] c = "L" -> "l"
      [] OTHER -> c

ToLower(s) == [i \in 1..Len(s) |-> Lower(s[i])]

\* index of the first character at or after i that is not whitespace
\* (Len(s) + 1 when there is none)
RECURSIVE SkipWS(_, _)
SkipWS(s, i) == IF i <= Len(s) /\ IsWS(s[i]) THEN SkipWS(s, i + 1) ELSE i

\* Where a match of /\s+and\s+/i that starts at i ends (its last character),
\* 0 when none starts at i.
MatchAnd(s, i) ==
    IF ~(i <= Len(s) /\ IsWS(s[i])) THEN 0
    ELSE LET j == SkipWS(s, i)
         IN  IF j + 3 <= Len(s)
                /\ ToLower(SubSeq(s, j, j + 2)) = <<"a", "n", "d">>
                /\ IsWS(s[j + 3])
             THEN SkipWS(s, j + 3) - 1
             ELSE 0

\* s.split(/\s+and\s+/i), from position p with the pending piece starting at from
RECURSIVE SplitAndFrom(_, _, _)
SplitAndFrom(s, p, from) ==
    IF p > Len(s) THEN <<SubSeq(s, from, Len(s))>>
    ELSE IF MatchAnd(s, p) # 0
         THEN <<SubSeq(s, from, p - 1)>>
              \o SplitAndFrom(s, MatchAnd(s, p) + 1, MatchAnd(s, p) + 1)
         ELSE SplitAndFrom(s, p + 1, from)

SplitAnd(s) == SplitAndFrom(s, 1, 1)

\* s.split(c) for a single character c, from position p
RECURSIVE SplitCharFrom(_, _, _, _)
SplitCharFrom(s, c, p, from) ==
    IF p > Len(s) THEN <<SubSeq(s, from, Len(s))>>
    ELSE IF s[p] = c
         THEN <<SubSeq(s, from, p - 1)>> \o SplitCharFrom(s, c, p + 1, p + 1)
         ELSE SplitCharFrom(s, c, p + 1, from)

SplitChar(s, c) == SplitCharFrom(s, c, 1, 1)

\* s.split(/\s+/): an empty first (last) piece when s starts (ends) with
\* whitespace
RECURSIVE SplitWSFrom(_, _, _)
SplitWSFrom(s, p, from) ==
    IF p > Len(s) THEN <<SubSeq(s, from, Len(s))>>
    ELSE IF IsWS(s[p])
         THEN <<SubSeq(s, from, p - 1)>>
              \o SplitWSFrom(s, SkipWS(s, p), SkipWS(s, p))
         ELSE SplitWSFrom(s, p + 1, from)

SplitWS(s) == SplitWSFrom(s, 1, 1)

\* pieces.join(sep)
RECURSIVE Join(_, _)
Join(pieces, sep) ==
    IF pieces = <<>> THEN <<>>
    ELSE IF Len(pieces) = 1 THEN pieces[1]
    ELSE pieces[1] \o sep \o Join(Tail(pieces), sep)

\* s[0] || "": the first character, or nothing
FirstChar(s) == IF s = <<>> THEN <<>> ELSE <<s[1]>>

----------------------------------------------------------------------------
(* buildAuthorTag and processAuthors *)

UnknownAuthorText ==
    <<"U", "n", "k", "n", "o", "w", "n", " ", "A", "u", "t", "h", "o", "r">>

UnknownAuthorTag ==
    <<"U", "n", "k", "n", "o", "w", "n", "A", "u", "t", "h", "o", "r">>

buildAuthorTag(authorStr) ==
    LET trimmed == Trim(authorStr)
    IN  IF trimmed = <<>> \/ ToLower(trimmed) = ToLower(UnknownAuthorText)
        THEN UnknownAuthorTag
        ELSE IF \E i \in 1..Len(trimmed) : trimmed[i] = ","
        THEN \* trimmed.split(",", 2).map(trim): the first two pieces
             LET pieces == SplitChar(trimmed, ",")
                 last == Trim(pieces[1])
                 firstRest == Trim(pieces[2])
             IN  last \o FirstChar(firstRest)
        ELSE LET parts == SplitWS(trimmed)
                 last == parts[Len(parts)]                     \* parts.pop()
                 rest == SubSeq(parts, 1, Len(parts) - 1)
                 first == IF rest = <<>> THEN <<>> ELSE rest[1] \* parts.shift()
             IN  last \o FirstChar(first)

\* A variant that keeps every tag, repeated ones included.
KeepAll(tags) == tags

\* [...new Set(authorTags)]: each distinct tag once, where it first occurs
Dedup(tags) ==
    LET F[n \in 0..Len(tags)] ==
            IF n = 0 THEN <<>>
            ELSE IF \E i \in 1..Len(F[n - 1]) : F[n - 1][i] = tags[n]
                 THEN F[n - 1]
                 ELSE Append(F[n - 1], tags[n])
    IN  F[Len(tags)]

\* An author value is absent, a string, an array of author objects or one
\* author object; an author object's missing (or empty) name is <<>>.
\* authorTags as they are before line 109 removes the duplicates.
RawAuthorTags(raw) ==
    IF raw.kind = "string"
    THEN LET cleaned == RemoveChars(raw.s, {"{", "}"})
             authorSplits == SplitAnd(cleaned)
         IN  [i \in 1..Len(authorSplits) |->
                <<"#">> \o buildAuthorTag(
                    sanitizeString(Trim(authorSplits[i]), FALSE, FALSE))]
    ELSE IF raw.kind = "array"
    THEN [i \in 1..Len(raw.a) |->
            LET first == raw.a[i].firstName
                last == IF raw.a[i].lastName = <<>>
                        THEN <<"U", "n", "k", "n", "o", "w", "n">>
                        ELSE raw.a[i].lastName
            IN  <<"#">> \o sanitizeString(last \o FirstChar(first), FALSE, FALSE)]
    ELSE <<>>

\* tag.replace(/^#/, "")
StripHash(tag) == IF tag # <<>> /\ tag[1] = "#" THEN Tail(tag) ELSE tag

\* !authorsRaw || authorsRaw === "Unknown Author"
IsUnknownAuthor(raw) ==
    \/ raw.kind = "absent"
    \/ raw.kind = "string" /\ (raw.s = <<>> \/ raw.s = UnknownAuthorText)

\* processAuthors(authorsRaw): threw when it ends in a TypeError
processAuthors(raw) ==
    IF IsUnknownAuthor(raw)
    THEN [threw |-> FALSE, authorTags |-> << <<"#">> \o UnknownAuthorTag >>,
          fileNameAuthor |-> UnknownAuthorTag]
    ELSE IF raw.kind = "string"
    THEN LET cleaned == RemoveChars(raw.s, {"{", "}"})
             firstPiece == SplitChar(cleaned, ",")[1]
         IN  [threw |-> FALSE,
              authorTags |-> Dedup(RawAuthorTags(raw)),
              fileNameAuthor |->
                  IF Len(SplitAnd(cleaned)) > 1
                  THEN firstPiece \o <<" ", "e", "t", " ", "a", "l">>
                  ELSE firstPiece]
    ELSE IF raw.kind = "array"
    THEN IF raw.a = <<>>
         THEN \* authorTags[0] is undefined: undefined.replace throws
              [threw |-> TRUE, authorTags |-> <<>>, fileNameAuthor |-> <<>>]
         ELSE [threw |-> FALSE,
               authorTags |-> Dedup(RawAuthorTags(raw)),
               fileNameAuthor |->
                   IF Len(raw.a) > 1
                   THEN StripHash(RawAuthorTags(raw)[1])
                        \o <<"_", "e", "t", "_", "a", "l">>
                   ELSE StripHash(RawAuthorTags(raw)[1])]
    ELSE \* one author object: neither branch is taken
         [threw |-> FALSE, authorTags |-> <<>>, fileNameAuthor |-> <<>>]

----------------------------------------------------------------------------
(* The file name of an entry's note *)

\* A parsed entry, as far as the file name reads it: fields.author (an author
\* value), fields.date, fields.year and fields.title, a missing or empty
\* string field being <<>>.

\* fields.title || "Untitled"
TitleOf(entry) ==
    IF entry.title = <<>> THEN <<"U", "n", "t", "i", "t", "l", "e", "d">>
    ELSE entry.title

\* fields.author || "Unknown Author"
AuthorOf(entry) ==
    IF entry.author.kind = "absent"
       \/ (entry.author.kind = "string" /\ entry.author.s = <<>>)
    THEN [kind |-> "string", s |-> UnknownAuthorText]
    ELSE entry.author

\* A variant that looks at fields.year before fields.date.
YearFieldFirst(entry) ==
    IF entry.year # <<>> THEN entry.year
    ELSE IF entry.date # <<>> /\ SplitChar(entry.date, "-")[1] # <<>>
         THEN SplitChar(entry.date, "-")[1]
    ELSE <<"U", "n", "k", "n", "o", "w", "n", " ", "Y", "e", "a", "r">>

\* fields.date?.split("-")[0] || fields.year || "Unknown Year"
YearOf(entry) ==
    LET fromDate == IF entry.date = <<>> THEN <<>>
                    ELSE SplitChar(entry.date, "-")[1]
    IN  IF fromDate # <<>> THEN fromDate
        ELSE IF entry.year # <<>> THEN entry.year
        ELSE <<"U", "n", "k", "n", "o", "w", "n", " ", "Y", "e", "a", "r">>

\* the title words that go into the file name
TitleWords == 3

\* sanitizeString(title.split(/\s+/).slice(0, 3).join(" "), true)
TruncatedTitle(title) ==
    LET words == SplitWS(title)
    IN  sanitizeString(Join(SubSeq(words, 1, Min(TitleWords, Len(words))), <<" ">>),
                       TRUE, FALSE)

\* `LNL ${fileNameAuthor} ${year} ${truncatedTitle}.md`
FileName(entry) ==
    <<"L", "N", "L", " ">> \o processAuthors(AuthorOf(entry)).fileNameAuthor
        \o <<" ">> \o YearOf(entry)
        \o <<" ">> \o TruncatedTitle(TitleOf(entry)) \o <<".", "m", "d">>

\* whether building the entry's note throws before the store is called
EntryThrows(entry) == processAuthors(AuthorOf(entry)).threw

----------------------------------------------------------------------------
(* The settings *)

\* DEFAULT_SETTINGS, as far as the model reads them
DEFAULT_SETTINGS ==
    [entryLimit |-> 5, filePrefix |-> <<>>, fileDirectory |-> <<".", "/">>]

\* loadData() of a plugin that never saved: null
NoData == [saved |-> FALSE]

\* no onChange has run
NoEdit == [field |-> "none"]

SettingsAtDefault ==
    /\ filePrefix = DEFAULT_SETTINGS.filePrefix
    /\ fileDirectory = DEFAULT_SETTINGS.fileDirectory
    /\ stored = NoData
    /\ lastEdit = NoEdit

----------------------------------------------------------------------------
(* The import run at rest, and the harness at rest *)

RunAtRest ==
    /\ pc = "off"
    /\ vaultExt = <<>>
    /\ content = <<>>
    /\ entryLimit = 5
    /\ strict = TRUE
    /\ folderExists = FALSE
    /\ notes = {}
    /\ files = <<>>
    /\ fileIdx = 0
    /\ todo = <<>>
    /\ entryIdx = 0
    /\ tpl = [host |-> FALSE, inFolder |-> FALSE, atPath |-> FALSE]
    /\ vault0 = [folder |-> FALSE, notes |-> {}]
    /\ calls = <<>>
    /\ notices = <<>>
    /\ errors = <<>>
    /\ SettingsAtDefault

HarnessAtRest ==
    /\ arg = <<>>
    /\ res = <<>>
    /\ step = "off"

----------------------------------------------------------------------------
(* importBibTeX *)

\* The entries bibliography files hold: two entries with different file names.
EntryPool ==
    << [author |-> [kind |-> "string", s |-> <<"F", ",", "N">>],
        date |-> <<"1", "9">>, year |-> <<>>, title |-> <<"T">>],
       [author |-> [kind |-> "absent"],
        date |-> <<>>, year |-> <<"2", "0">>, title |-> <<>>] >>

\* fileName, and whether building the note throws, for each entry of the pool
NoteName == [e \in 1..Len(EntryPool) |-> FileName(EntryPool[e])]

NoteThrows == [e \in 1..Len(EntryPool) |-> EntryThrows(EntryPool[e])]

\* file.extension === "bib", wrongly true of every file
AnyFile(ext) == TRUE

\* file.extension === "bib"
IsBibFile(ext) == ext = "bib"

\* this.app.vault.getFiles().filter(...): the vault indices of the .bib files
BibFiles(exts) ==
    SelectSeq([i \in 1..Len(exts) |-> i], LAMBDA i : IsBibFile(exts[i]))

\* The configured templatePath as a fallback when the host folder's template
\* is missing.
TemplateFoundWithFallback(t) == (t.host /\ t.inFolder) \/ t.atPath

\* getAbstractFileByPath(templatePath), templatePath being
\* `${coreTemplateFolder}/bibtex-template.md` when the host has a template
\* folder and settings.templatePath otherwise
TemplateFound(t) == IF t.host THEN t.inFolder ELSE t.atPath

\* The configured templatePath, whatever the host's setting.
ConfiguredPathOnly(t) == <<"templatePath">>

\* coreTemplateFolder ? `${coreTemplateFolder}/bibtex-template.md`
\*                    : this.settings.templatePath
\* (each path one run of characters)
TemplatePath(t) ==
    IF t.host THEN <<"coreTemplateFolder/bibtex-template.md">>
    ELSE <<"templatePath">>

\* All the entries, whatever the limit.
AllEntries(entries, limit) == entries

\* parsedEntries.slice(0, this.settings.entryLimit)
EntriesToProcess(entries, limit) == SubSeq(entries, 1, Min(limit, Len(entries)))

\* An error that ends the whole run instead of the file.
StopAfterError(i, n) == n + 1

\* the catch is inside the for loop: after an error the next file is next
NextFileAfterError(i, n) == i + 1

\* A catch inside the entry loop: after a throw the next entry is next.
EntrySkipped(k, n) == k + 1

\* the try encloses the whole entry loop: a throw in entry k leaves the loop,
\* no entry of the file is next
EntryAfterError(k, n) == n + 1

\* A check that finds the folder missing every time.
FolderAlwaysMissing(exists) == TRUE

\* !this.app.vault.getAbstractFileByPath(folderPath)
FolderMissing(exists) == ~exists

\* A store whose create accepts every path.
NeverRejects(rejecting, path, ns) == FALSE

\* this.app.vault.create(path, ...) of a store that rejects an existing path
\* throws when the path is taken
CreateRejects(rejecting, path, ns) == rejecting /\ path \in ns

Call(op, file, entry, path, ok) ==
    [op |-> op, file |-> file, entry |-> entry, path |-> path, ok |-> ok]

ImportIdle ==
    /\ pc = "idle"
    /\ vaultExt \in SeqsUpTo({"bib", "md"}, MaxFiles)
    /\ content = [i \in 1..Len(vaultExt) |-> [status |-> "unread", entries |-> <<>>]]
    /\ entryLimit \in 1..MaxLimit
    /\ strict \in BOOLEAN
    /\ vault0 \in {[folder |-> FALSE, notes |-> {}],
                   [folder |-> TRUE, notes |-> {}],
                   [folder |-> TRUE, notes |-> {NoteName[1]}]}
    /\ folderExists = vault0.folder
    /\ notes = vault0.notes
    /\ tpl \in [host : BOOLEAN, inFolder : BOOLEAN, atPath : BOOLEAN]
    /\ files = <<>>
    /\ fileIdx = 0
    /\ todo = <<>>
    /\ entryIdx = 0
    /\ calls = <<>>
    /\ notices = <<>>
    /\ errors = <<>>
    /\ SettingsAtDefault

Init == ImportIdle /\ HarnessAtRest

\* lines 48-54: list the .bib files; with none, the notice and return
ScanVault ==
    /\ pc = "idle"
    /\ files' = BibFiles(vaultExt)
    /\ IF files' = <<>>
       THEN /\ notices' = Append(notices, "NoFiles")
            /\ pc' = "done"
       ELSE /\ notices' = notices
            /\ pc' = "template"
    /\ UNCHANGED <<vaultExt, content, entryLimit, strict, folderExists, notes,
                   fileIdx, todo, entryIdx, tpl, vault0, calls, errors, fnVars, setVars>>

\* lines 56-69: resolve the template; missing: notice, console.error, return.
\* The read of line 69 is outside every try: when it throws, the handler's
\* promise rejects and the run is over with nothing said.
ResolveTemplate ==
    /\ pc = "template"
    /\ IF TemplateFound(tpl)
       THEN /\ \E ok \in BOOLEAN :
                  /\ calls' = Append(calls, Call("readTemplate", 0, 0,
                                                 TemplatePath(tpl), ok))
                  /\ IF ok THEN fileIdx' = 1 /\ pc' = "file"
                     ELSE fileIdx' = fileIdx /\ pc' = "crashed"
            /\ UNCHANGED <<notices, errors>>
       ELSE /\ notices' = Append(notices, "TemplateNotFound")
            /\ errors' = Append(errors, "TemplateNotFound")
            /\ pc' = "done"
            /\ UNCHANGED <<calls, fileIdx>>
    /\ UNCHANGED <<vaultExt, content, entryLimit, strict, folderExists, notes,
                   files, todo, entryIdx, tpl, vault0, fnVars, setVars>>

\* lines 71-82: read and parse the next file; the read or the parse may throw,
\* which the catch of lines 200-202 logs before the loop goes on
ReadFile ==
    /\ pc = "file"
    /\ fileIdx <= Len(files)
    /\ LET f == files[fileIdx]
       IN  /\ calls' = Append(calls, Call("read", f, 0, <<>>, TRUE))
           /\ \E status \in {"readFail", "parseFail", "ok"} :
              \E entries \in (IF status = "ok"
                              THEN SeqsUpTo(1..Len(EntryPool), MaxEntries)
                              ELSE {<<>>}) :
                 /\ content' = [content EXCEPT
                                  ![f] = [status |-> status, entries |-> entries]]
                 /\ IF status = "ok"
                    THEN /\ todo' = EntriesToProcess(entries, entryLimit)
                         /\ entryIdx' = 1
                         /\ pc' = "entry"
                         /\ UNCHANGED <<fileIdx, errors>>
                    ELSE /\ errors' = Append(errors, f)
                         /\ fileIdx' = NextFileAfterError(fileIdx, Len(files))
                         /\ UNCHANGED <<todo, entryIdx, pc>>
    /\ UNCHANGED <<vaultExt, entryLimit, strict, folderExists, notes, files,
                   tpl, vault0, notices, fnVars, setVars>>

\* lines 82-199: one entry: build the note, make sure the folder exists,
\* create the note; a throw ends the file (lines 200-202)
ProcessEntry ==
    /\ pc = "entry"
    /\ entryIdx <= Len(todo)
    /\ LET f == files[fileIdx]
           entry == todo[entryIdx]
           path == NoteName[entry]
           mkdir == IF FolderMissing(folderExists)
                    THEN <<Call("createFolder", f, entryIdx, <<>>, TRUE)>>
                    ELSE <<>>
           rejected == CreateRejects(strict, path, notes)
           loopLeft == EntryAfterError(entryIdx, Len(todo)) > Len(todo)
       IN  IF NoteThrows[entry]
           THEN /\ errors' = Append(errors, f)
                /\ entryIdx' = EntryAfterError(entryIdx, Len(todo))
                /\ fileIdx' = IF loopLeft
                              THEN NextFileAfterError(fileIdx, Len(files))
                              ELSE fileIdx
                /\ pc' = IF loopLeft THEN "file" ELSE "entry"
                /\ UNCHANGED <<folderExists, notes, calls>>
           ELSE /\ folderExists' = TRUE
                /\ calls' = calls \o mkdir
                              \o <<Call("create", f, entryIdx, path, ~rejected)>>
                /\ IF rejected
                   THEN /\ errors' = Append(errors, f)
                        /\ entryIdx' = EntryAfterError(entryIdx, Len(todo))
                        /\ fileIdx' = IF loopLeft
                                      THEN NextFileAfterError(fileIdx, Len(files))
                                      ELSE fileIdx
                        /\ pc' = IF loopLeft THEN "file" ELSE "entry"
                        /\ UNCHANGED notes
                   ELSE /\ notes' = notes \cup {path}
                        /\ entryIdx' = entryIdx + 1
                        /\ UNCHANGED <<errors, fileIdx, pc>>
    /\ UNCHANGED <<vaultExt, content, entryLimit, strict, files, todo, tpl,
                   vault0, notices, fnVars, setVars>>

\* the inner loop is over: on to the next file
EndFile ==
    /\ pc = "entry"
    /\ entryIdx > Len(todo)
    /\ fileIdx' = fileIdx + 1
    /\ pc' = "file"
    /\ UNCHANGED <<vaultExt, content, entryLimit, strict, folderExists, notes,
                   files, todo, entryIdx, tpl, vault0, calls, notices, errors,
                   fnVars, setVars>>

\* line 205: after the last file, the success notice
FinishImport ==
    /\ pc = "file"
    /\ fileIdx > Len(files)
    /\ notices' = Append(notices, "Success")
    /\ pc' = "done"
    /\ UNCHANGED <<vaultExt, content, entryLimit, strict, folderExists, notes,
                   files, fileIdx, todo, entryIdx, tpl, vault0, calls, errors,
                   fnVars, setVars>>

Next ==
    \/ ScanVault
    \/ ResolveTemplate
    \/ ReadFile
    \/ ProcessEntry
    \/ EndFile
    \/ FinishImport

Spec == Init /\ [][Next]_vars

----------------------------------------------------------------------------
(* What a run over a list of parsed files writes *)

IsWrite(c) == c.op \in {"create", "createFolder"}

\* a store call without the file and entry it came from
Write(c) == [op |-> c.op, path |-> c.path, ok |-> c.ok]

\* the writes among the calls, in order
Writes(cs) ==
    LET ws == SelectSeq(cs, IsWrite)
    IN  [i \in 1..Len(ws) |-> Write(ws[i])]

\* The writes of one file's entries es[k..], the store holding the notes ns
\* and the folder or not; with the store as it is left.
RECURSIVE WritesOfEntries(_, _, _, _, _)
WritesOfEntries(es, k, folder, ns, rejects) ==
    IF k > Len(es) THEN [writes |-> <<>>, folder |-> folder, notes |-> ns]
    ELSE LET path == NoteName[es[k]]
             mkdir == IF folder THEN <<>>
                      ELSE <<[op |-> "createFolder", path |-> <<>>, ok |-> TRUE]>>
         IN  IF rejects /\ path \in ns
             THEN [writes |-> mkdir \o <<[op |-> "create", path |-> path, ok |-> FALSE]>>,
                   folder |-> TRUE, notes |-> ns]
             ELSE LET rest == WritesOfEntries(es, k + 1, TRUE, ns \cup {path}, rejects)
                  IN  [writes |-> mkdir
                                  \o <<[op |-> "create", path |-> path, ok |-> TRUE]>>
                                  \o rest.writes,
                       folder |-> rest.folder, notes |-> rest.notes]

\* The writes of a run over files whose parsed entries are fs[1], fs[2], ...
RECURSIVE WritesOfFiles(_, _, _, _, _)
WritesOfFiles(fs, limit, folder, ns, rejects) ==
    IF fs = <<>> THEN <<>>
    ELSE LET first == WritesOfEntries(SubSeq(fs[1], 1, Min(limit, Len(fs[1]))),
                                      1, folder, ns, rejects)
         IN  first.writes
             \o WritesOfFiles(Tail(fs), limit, first.folder, first.notes, rejects)

\* the run's files that were read and parsed, and their entries, in order
ParsedFiles ==
    LET good == SelectSeq(files, LAMBDA f : content[f].status = "ok")
    IN  [i \in 1..Len(good) |-> content[good[i]].entries]

HasBib == \E i \in 1..Len(vaultExt) : vaultExt[i] = "bib"

Succeeded == pc = "done" /\ notices = <<"Success">>

\* the calls of operation op that came from vault file f
CallsOf(op, f) == SelectSeq(calls, LAMBDA c : c.op = op /\ c.file = f)

----------------------------------------------------------------------------
(* C1, C2, C5, C6 *)

\* C1 -- per-file failure isolation: when reading or parsing a file fails the
\* run does not abort; every file of the list is still read, and the folder
\* and notes written are exactly those of a run over the list without the
\* failed files.
C1_FailureIsolated ==
    Succeeded =>
        /\ [i \in 1..Len(SelectSeq(calls, LAMBDA c : c.op = "read")) |->
               SelectSeq(calls, LAMBDA c : c.op = "read")[i].file] = files
        /\ Writes(calls) = WritesOfFiles(ParsedFiles, entryLimit, vault0.folder,
                                         vault0.notes, strict)

\* the first file cannot be read, the second one's two entries are written
C1_Witness ==
    /\ Succeeded
    /\ Len(files) = 2
    /\ content[files[1]].status = "readFail"
    /\ content[files[2]].status = "ok"
    /\ Len(CallsOf("create", files[2])) = 2
    /\ \A i \in 1..2 : CallsOf("create", files[2])[i].ok

\* C2 -- the entry limit is per source file: the notes created from a file
\* come from its first entryLimit entries, in source order, at most
\* entryLimit of them; every file of the run is read whatever the limit, and
\* a file with no error gets all of its first entryLimit entries written,
\* whatever the files before it used.
C2_LimitPerFile ==
    /\ \A f \in 1..Len(vaultExt) :
          LET made == CallsOf("create", f)
          IN  /\ Len(made) <= entryLimit
              /\ \A k \in 1..Len(made) :
                    /\ made[k].entry = k
                    /\ k <= Len(content[f].entries)
                    /\ made[k].path = NoteName[content[f].entries[k]]
    /\ Succeeded =>
          \A i \in 1..Len(files) :
              /\ Len(CallsOf("read", files[i])) = 1
              /\ (content[files[i]].status = "ok"
                    /\ \A e \in 1..Len(errors) : errors[e] # files[i])
                 => Len(CallsOf("create", files[i]))
                        = Min(entryLimit, Len(content[files[i]].entries))

\* two files of two entries each under a limit of one: one note from each
C2_Witness ==
    /\ Succeeded
    /\ entryLimit = 1
    /\ Len(files) = 2
    /\ \A i \in 1..2 :
          /\ Len(content[files[i]].entries) = 2
          /\ Len(CallsOf("create", files[i])) = 1
          /\ CallsOf("create", files[i])[1].ok

\* C5 -- zero source files: with no file of extension "bib" in the vault the
\* run ends with the "no files" notice, calls neither the store's create nor
\* createFolder nor read, and logs no error.
C5_NoSourceFiles ==
    ~HasBib =>
        /\ pc \in {"idle", "done"}
        /\ calls = <<>>
        /\ errors = <<>>
        /\ folderExists = vault0.folder /\ notes = vault0.notes
        /\ pc = "done" => notices = <<"NoFiles">>

\* a vault whose only file is not a bibliography, after the run
C5_Witness ==
    /\ pc = "done"
    /\ vaultExt = <<"md">>
    /\ notices = <<"NoFiles">>

\* the template path the run resolves does not exist
TemplateMissing == (tpl.host /\ ~tpl.inFolder) \/ (~tpl.host /\ ~tpl.atPath)

\* C6 -- a missing template is fatal: with a source file but no template at
\* the resolved path the run ends with the "template not found" notice and
\* error, reads no bibliography file, creates no folder and no note, and
\* issues no success notice.
C6_MissingTemplateFatal ==
    (HasBib /\ TemplateMissing) =>
        /\ pc \in {"idle", "template", "done"}
        /\ calls = <<>>
        /\ folderExists = vault0.folder /\ notes = vault0.notes
        /\ pc = "done" => /\ notices = <<"TemplateNotFound">>
                          /\ errors = <<"TemplateNotFound">>

\* the host names a template folder that lacks the template, the configured
\* templatePath exists: the run has ended in failure
C6_Witness ==
    /\ pc = "done"
    /\ HasBib
    /\ tpl = [host |-> TRUE, inFolder |-> FALSE, atPath |-> TRUE]
    /\ notices = <<"TemplateNotFound">>

----------------------------------------------------------------------------
(* The sanitizer applied once and twice to every short string *)

\* one character of each class sanitizeString tells apart
SanAlphabet == {"a", " ", "/", ".", "(", "_"}

InitSanitize ==
    /\ RunAtRest
    /\ arg \in [input : SeqsUpTo(SanAlphabet, MaxLen),
                preserveSpaces : BOOLEAN, forTags : BOOLEAN]
    /\ res = <<>>
    /\ step = "sanitize"

SanitizeOnce ==
    /\ step = "sanitize"
    /\ res' = <<sanitizeString(arg.input, arg.preserveSpaces, arg.forTags)>>
    /\ step' = "again"
    /\ UNCHANGED <<arg, runVars>>

SanitizeAgain ==
    /\ step = "again"
    /\ res' = Append(res, sanitizeString(res[1], arg.preserveSpaces, arg.forTags))
    /\ step' = "sanitized"
    /\ UNCHANGED <<arg, runVars>>

NextSanitize == SanitizeOnce \/ SanitizeAgain

SpecSanitize == InitSanitize /\ [][NextSanitize]_vars

----------------------------------------------------------------------------
(* C9 *)

\* C9 -- idempotent sanitize: for every string and every combination of the
\* preserveSpaces and forTags options, sanitizing the sanitized string again
\* gives the sanitized string.
C9_SanitizeIdempotent ==
    step = "sanitized" => res[2] = res[1]

\* a string that the first pass changes (an unsafe character removed, the
\* result trimmed and its whitespace run collapsed), sanitized twice
C9_Witness ==
    /\ step = "sanitized"
    /\ arg.input = <<"/", " ", " ", "a">>
    /\ ~arg.preserveSpaces
    /\ res[1] = <<"a">>

----------------------------------------------------------------------------
(* The template stage applied to every short template and replacement map *)

\* longest template, in parts
MaxParts == 3

\* The parts templates are made of: placeholders of the map's key "k" (bare
\* and padded), placeholders of no key ("u", padded, and the inherited
\* "constructor"), and loose text, braces and a line break.
TplParts ==
    { <<"{", "{", "k", "}", "}">>, <<"{", "{", " ", "k", " ", "}", "}">>,
      <<"{", "{", "u", "}", "}">>, <<"{", "{", " ", "u", "}", "}">>,
      <<"{", "{", "constructor", "}", "}">>,
      <<"{">>, <<"}">>, <<"x">>, <<" ">>, <<"\n">> }

\* The values the map gives its key: empty, plain, one brace, a whole token,
\* a token of the key followed by text.
TplValues ==
    { <<>>, <<"v">>, <<"{">>, <<"{", "{", "k", "}", "}">>,
      <<"{", "{", "k", "}", "}", "x">> }

TplKey == <<"k">>

InitTemplate ==
    /\ RunAtRest
    /\ \E parts \in SeqsUpTo(TplParts, MaxParts), v \in TplValues :
          arg = [template |-> Flatten(parts), repl |-> (TplKey :> v)]
    /\ res = <<>>
    /\ step = "populate"

PopulateTemplate ==
    /\ step = "populate"
    /\ res' = [segs |-> Segments(arg.template),
               pieces |-> Pieces(arg.template, arg.repl),
               out |-> Populate(arg.template, arg.repl)]
    /\ step' = "populated"
    /\ UNCHANGED <<arg, runVars>>

NextTemplate == PopulateTemplate

SpecTemplate == InitTemplate /\ [][NextTemplate]_vars

\* the text holds no {{...}} token
NoToken(text) == \A i \in 1..Len(Segments(text)) : ~Segments(text)[i].tok

\* every placeholder of the template names a key of the map
OnlyRecognized(template, repl) ==
    \A i \in 1..Len(Segments(template)) :
        Segments(template)[i].tok => Trim(Segments(template)[i].key) \in DOMAIN repl

BraceFree(text) == \A i \in 1..Len(text) : text[i] \notin {"{", "}"}

----------------------------------------------------------------------------
(* C7, C8 *)

\* C7 -- unresolved placeholder is preserved: each token {{name}} whose trimmed
\* name is not a key of the map appears in the output with exactly its
\* original text, whitespace inside the braces included.
C7_UnresolvedPreserved ==
    step = "populated" =>
        \A i \in 1..Len(res.segs) :
            (res.segs[i].tok /\ Trim(res.segs[i].key) \notin DOMAIN arg.repl)
                => res.pieces[i] = res.segs[i].text

\* C8 as stated -- a template with only recognized placeholders, populated with
\* a complete map, gives output with no {{...}} token, whatever the values
\* (empty strings and brace text included).
C8_NoTokenLeft ==
    (step = "populated" /\ OnlyRecognized(arg.template, arg.repl))
        => NoToken(res.out)

\* C8 as amended -- the same, when no value of the map holds a brace character
\* (empty values included).
C8_NoTokenLeftBraceFree ==
    (step = "populated" /\ OnlyRecognized(arg.template, arg.repl)
        /\ \A k \in DOMAIN arg.repl : BraceFree(arg.repl[k]))
        => NoToken(res.out)

\* a template of two recognized placeholders around text, populated with the
\* empty value
C8_Witness ==
    /\ step = "populated"
    /\ arg.template = <<"{", "{", "k", "}", "}", "x", "{", "{", " ", "k", " ", "}", "}">>
    /\ arg.repl[TplKey] = <<>>
    /\ res.out = <<"x">>

----------------------------------------------------------------------------
(* processAuthors applied to author values of every shape *)

\* most authors in one author value
MaxAuthors == 3

\* One author's name as it stands in a string author value: a single word,
\* "Last,First", "First Last", with an unsafe character, in braces, with a
\* period, only a comma, only a space, "Last,First" with a two-word last name,
\* a word that ends in the letters "and".
NameSegs ==
    { <<"F">>, <<"G">>, <<"F", ",", "N">>, <<"F", ",", " ", "N">>,
      <<"N", " ", "F">>, <<"F", "/">>, <<"{", "G", "}">>, <<"G", ".">>,
      <<",">>, <<" ">>, <<"v", " ", "F", ",", "N">>, <<"G", "a", "n", "d">> }

AndSep == <<" ", "a", "n", "d", " ">>

AndSepUpper == <<" ", "A", "N", "D", " ">>

\* One structured author: firstName and lastName, each possibly missing.
AuthorObjs ==
    [firstName : {<<>>, <<"N">>, <<"N", "o">>},
     lastName : {<<>>, <<"F">>, <<"G">>, <<"F", "/">>, <<"v", " ", "F">>}]

AuthorValues ==
    {[kind |-> "absent"]}
    \cup {[kind |-> "string", s |-> UnknownAuthorText], [kind |-> "string", s |-> <<>>]}
    \cup {[kind |-> "string", s |-> ToLower(UnknownAuthorText)]}
    \cup {[kind |-> "string", s |-> Join(segs, AndSep)] :
            segs \in SeqsUpTo(NameSegs, MaxAuthors) \ {<<>>}}
    \cup {[kind |-> "string", s |-> Join(segs, AndSepUpper)] :
            segs \in [1..2 -> NameSegs]}
    \cup {[kind |-> "array", a |-> a] : a \in SeqsUpTo(AuthorObjs, MaxAuthors)}
    \cup {[kind |-> "object", o |-> o] : o \in AuthorObjs}

InitAuthors ==
    /\ RunAtRest
    /\ arg \in AuthorValues
    /\ res = <<>>
    /\ step = "authors"

ProcessAuthors ==
    /\ step = "authors"
    /\ res' = [raw |-> RawAuthorTags(arg), out |-> processAuthors(arg)]
    /\ step' = "processed"
    /\ UNCHANGED <<arg, runVars>>

NextAuthors == ProcessAuthors

SpecAuthors == InitAuthors /\ [][NextAuthors]_vars

HasDuplicates(tags) ==
    \E i, j \in 1..Len(tags) : i < j /\ tags[i] = tags[j]

\* the position at which tag t first occurs in tags
FirstAt(tags, t) == CHOOSE i \in 1..Len(tags) :
    tags[i] = t /\ \A j \in 1..(i - 1) : tags[j] # t

----------------------------------------------------------------------------
(* C4, C10 *)

\* C4 -- author normalization completeness: for a string, a sequence of
\* structured authors and a single structured author, processAuthors returns
\* at least one author tag and a non-empty file-name author; for an absent
\* author or the literal "Unknown Author" it returns exactly the
\* unknown-author entry.
C4_AuthorsNonEmpty ==
    step = "processed" =>
        /\ ~res.out.threw
        /\ Len(res.out.authorTags) >= 1
        /\ res.out.fileNameAuthor # <<>>
        /\ (arg.kind = "absent" \/ (arg.kind = "string" /\ arg.s = UnknownAuthorText))
              => /\ res.out.authorTags = << <<"#">> \o UnknownAuthorTag >>
                 /\ res.out.fileNameAuthor = UnknownAuthorTag

\* C10 -- tag uniqueness and order: for a string or a sequence that yields
\* duplicate author tags, authorTags holds each distinct tag exactly once, in
\* the order of first occurrence.
C10_TagsUniqueInOrder ==
    (step = "processed" /\ arg.kind \in {"string", "array"} /\ ~res.out.threw
        /\ HasDuplicates(res.raw))
        => LET tags == res.out.authorTags
           IN  /\ ~HasDuplicates(tags)
               /\ {tags[i] : i \in 1..Len(tags)} = {res.raw[i] : i \in 1..Len(res.raw)}
               /\ \A i, j \in 1..Len(tags) :
                     i < j => FirstAt(res.raw, tags[i]) < FirstAt(res.raw, tags[j])

\* "F,N and G and F,N": the tags #FN, #G, #FN become #FN, #G
C10_Witness ==
    /\ step = "processed"
    /\ arg = [kind |-> "string",
              s |-> <<"F", ",", "N">> \o AndSep \o <<"G">> \o AndSep \o <<"F", ",", "N">>]
    /\ res.raw = << <<"#", "F", "N">>, <<"#", "G">>, <<"#", "F", "N">> >>
    /\ res.out.authorTags = << <<"#", "F", "N">>, <<"#", "G">> >>

----------------------------------------------------------------------------
(* The file name built for entries of every shape *)

EntryAuthors ==
    { [kind |-> "absent"],
      [kind |-> "string", s |-> <<"F", ",", "N">>],
      [kind |-> "string", s |-> <<"F", "/", "G">>],
      [kind |-> "string", s |-> <<"N", " ", "F">> \o AndSep \o <<"G">>],
      [kind |-> "array", a |-> <<[firstName |-> <<"N">>, lastName |-> <<"F", "/">>]>>],
      [kind |-> "array", a |-> <<>>],
      [kind |-> "object", o |-> [firstName |-> <<"N">>, lastName |-> <<"F">>]] }

EntryDates == { <<>>, <<"1", "9">>, <<"1", "9", "-", "0", "1">>, <<"1", "/", "9">>, <<"-">> }

EntryYears == { <<>>, <<"2", "0">>, <<"2", "?">> }

EntryTitles ==
    { <<>>, <<"T">>, <<"a", " ", "b", " ", "c", " ", "d">>, <<"a", "/", "b">>,
      <<" ", "a", ".">>, <<" ", "a", " ", "b", " ", "c">> }

EntryValues ==
    [author : EntryAuthors, date : EntryDates, year : EntryYears, title : EntryTitles]

InitFileName ==
    /\ RunAtRest
    /\ arg \in EntryValues
    /\ res = <<>>
    /\ step = "name"

BuildFileName ==
    /\ step = "name"
    /\ res' = [threw |-> EntryThrows(arg), name |-> FileName(arg)]
    /\ step' = "named"
    /\ UNCHANGED <<arg, runVars>>

NextFileName == BuildFileName

SpecFileName == InitFileName /\ [][NextFileName]_vars

EndsWith(s, suffix) ==
    /\ Len(s) >= Len(suffix)
    /\ SubSeq(s, Len(s) - Len(suffix) + 1, Len(s)) = suffix

----------------------------------------------------------------------------
(* C3 *)

\* C3 -- filename always valid: for every parsed entry the file name handed to
\* the store's create is non-empty, ends in ".md" and holds none of the
\* characters / \ : * ? " < > | .
C3_FileNameValid ==
    (step = "named" /\ ~res.threw) =>
        /\ res.name # <<>>
        /\ EndsWith(res.name, <<".", "m", "d">>)
        /\ \A i \in 1..Len(res.name) : res.name[i] \notin InvalidChars

----------------------------------------------------------------------------
(* C11 *)

\* The last name buildAuthorTag finds in one author's text: the text before
\* the first comma, else the last word.
LastNameOf(authorStr) ==
    LET trimmed == Trim(authorStr)
    IN  IF \E i \in 1..Len(trimmed) : trimmed[i] = ","
        THEN Trim(SplitChar(trimmed, ",")[1])
        ELSE LET parts == SplitWS(trimmed) IN parts[Len(parts)]

\* the authors an author value names, and the last name of the first of them
AuthorCount(raw) ==
    IF raw.kind = "string" THEN Len(SplitAnd(RemoveChars(raw.s, {"{", "}"})))
    ELSE IF raw.kind = "array" THEN Len(raw.a)
    ELSE 1

FirstAuthorLastName(raw) ==
    IF raw.kind = "string"
    THEN LastNameOf(SplitAnd(RemoveChars(raw.s, {"{", "}"}))[1])
    ELSE IF raw.kind = "array" THEN raw.a[1].lastName
    ELSE raw.o.lastName

EtAl == <<" ", "e", "t", " ", "a", "l">>

\* C11 -- file-name author: for an author value of any shape whose first
\* author has a last name, fileNameAuthor is the first author's last name alone when
\* there is exactly one author and that last name followed by " et al" when
\* there are more; "N F and G" (first name N, last name F) gives "F et al".
C11_FileNameAuthor ==
    (step = "processed" /\ ~IsUnknownAuthor(arg) /\ AuthorCount(arg) >= 1
        /\ FirstAuthorLastName(arg) # <<>>)
        => /\ ~res.out.threw
           /\ res.out.fileNameAuthor =
                 IF AuthorCount(arg) = 1 THEN FirstAuthorLastName(arg)
                 ELSE FirstAuthorLastName(arg) \o EtAl

----------------------------------------------------------------------------
(* C12 *)

\* new Date().toISOString().split("T")[0]: the day of the run, one run of
\* digits and hyphens
createdDate == <<"YYYY-MM-DD">>

\* sub occurs in s
Contains(s, sub) ==
    \E i \in 1..(Len(s) - Len(sub) + 1) : SubSeq(s, i, i + Len(sub) - 1) = sub

UnknownYearText ==
    <<"U", "n", "k", "n", "o", "w", "n", " ", "Y", "e", "a", "r">>

\* the entry has no author, no date, no year and no title
IsSparse(entry) ==
    /\ entry.author.kind = "absent"
    /\ entry.date = <<>>
    /\ entry.year = <<>>
    /\ entry.title = <<>>

\* C12 -- sparse-entry file name: for an entry with no author, no date or year
\* and no title the file name is exactly "LNL " + the date stamp + ".md", the
\* author and year components being left out; and no file name holds the
\* text "Unknown Author", "UnknownAuthor" or "Unknown Year".
C12_SparseFileName ==
    (step = "named" /\ ~res.threw) =>
        /\ IsSparse(arg) =>
              res.name = <<"L", "N", "L", " ">> \o createdDate \o <<".", "m", "d">>
        /\ ~Contains(res.name, UnknownAuthorText)
        /\ ~Contains(res.name, UnknownAuthorTag)
        /\ ~Contains(res.name, UnknownYearText)

----------------------------------------------------------------------------
(* Keyword tags and the replacement map *)

\* A keywords value is absent, a string or an array of strings.
\* keywordArray as lines 167-180 build it
keywordArray(kw) ==
    IF kw.kind = "string" /\ Trim(kw.s) # <<>>
    THEN LET cleaned == Trim(RemoveChars(kw.s, {"{", "}"}))
             splitted == SplitChar(cleaned, ",")
         IN  IF cleaned # <<>>
             THEN [i \in 1..Len(splitted) |->
                     <<"#">> \o CollapseRuns(Trim(splitted[i]), WhiteSpace, <<"_">>)]
             ELSE <<>>
    ELSE IF kw.kind = "array"
    THEN [i \in 1..Len(kw.a) |-> <<"#">> \o sanitizeString(kw.a[i], FALSE, FALSE)]
    ELSE <<>>

\* `["${tags.join('","')}"]`
InlineArray(tags) ==
    <<"[", "\"">> \o Join(tags, <<"\"", ",", "\"">>) \o <<"\"", "]">>

\* A variant that hands the field on as it is, without a default.
NoDefault(value, default) == value

\* value || default
OrDefault(value, default) == IF value = <<>> THEN default ELSE value

UntitledText == <<"U", "n", "t", "i", "t", "l", "e", "d">>

NoAbstractText ==
    <<"N", "o", " ", "a", "b", "s", "t", "r", "a", "c", "t", " ",
      "p", "r", "o", "v", "i", "d", "e", "d", ".">>

UnknownJournalText ==
    <<"U", "n", "k", "n", "o", "w", "n", " ", "J", "o", "u", "r", "n", "a", "l">>

UnknownKeyText == <<"U", "n", "k", "n", "o", "w", "n", "K", "e", "y">>

NoLinkText ==
    <<"N", "o", " ", "l", "i", "n", "k", " ", "p", "r", "o", "v", "i", "d", "e", "d">>

UnknownPublisherText ==
    <<"U", "n", "k", "n", "o", "w", "n", " ",
      "P", "u", "b", "l", "i", "s", "h", "e", "r">>

NotAvailableText == <<"N", "/", "A">>

UnknownTypeText ==
    <<"U", "n", "k", "n", "o", "w", "n", " ", "T", "y", "p", "e">>

\* What the import reads of a parsed entry: entry.key, entry.type and the
\* fields, a missing or empty string being <<>>.
FieldNames ==
    {"key", "type", "title", "author", "keywords", "date", "year", "abstract",
     "journaltitle", "date-modified", "url", "publisher", "volume", "issue",
     "pages", "doi"}

\* the keys of the replacements object
KeyNames ==
    { <<"citekey">>, <<"createdDate">>, <<"lastModified">>, <<"title">>,
      <<"year">>, <<"abstract">>, <<"journaltitle">>, <<"type">>,
      <<"publisher">>, <<"volume">>, <<"issue">>, <<"pages">>, <<"doi">>,
      <<"url">>, <<"zoteroLink">>, <<"conditionalFields">>, <<"authors">>,
      <<"keywords">>, <<"tags">> }

\* the replacements object of lines 200-226
Replacements(entry) ==
    LET authorTags == processAuthors(AuthorOf(entry)).authorTags
        keywordTags == keywordArray(entry.keywords)
        url == OrDefault(entry.url, NoLinkText)
    IN  [k \in KeyNames |->
            CASE k = <<"citekey">> -> OrDefault(entry.key, UnknownKeyText)
              [] k = <<"createdDate">> -> createdDate
              [] k = <<"lastModified">> -> OrDefault(entry["date-modified"], createdDate)
              [] k = <<"title">> -> OrDefault(entry.title, UntitledText)
              [] k = <<"year">> -> YearOf(entry)
              [] k = <<"abstract">> -> OrDefault(entry.abstract, NoAbstractText)
              [] k = <<"journaltitle">> -> OrDefault(entry.journaltitle, UnknownJournalText)
              [] k = <<"type">> -> OrDefault(entry.type, UnknownTypeText)
              [] k = <<"publisher">> -> OrDefault(entry.publisher, UnknownPublisherText)
              [] k = <<"volume">> -> OrDefault(entry.volume, NotAvailableText)
              [] k = <<"issue">> -> OrDefault(entry.issue, NotAvailableText)
              [] k = <<"pages">> -> OrDefault(entry.pages, NotAvailableText)
              [] k = <<"doi">> -> OrDefault(entry.doi, NotAvailableText)
              [] k = <<"url">> -> url
              [] k = <<"zoteroLink">> -> url
              [] k = <<"conditionalFields">> -> <<>>
              [] k = <<"authors">> -> InlineArray(authorTags)
              [] k = <<"keywords">> -> InlineArray(keywordTags)
              [] k = <<"tags">> -> InlineArray(authorTags \o keywordTags)]

----------------------------------------------------------------------------
(* The replacement map built for entries with every subset of the fields *)

\* the value a field has when the entry holds it
PresentValue ==
    [f \in FieldNames |->
        CASE f = "author" -> [kind |-> "string", s |-> <<"F", ",", "N">>]
          [] f = "keywords" -> [kind |-> "string", s |-> <<"a", " ", "b", ",", "c">>]
          [] f = "date" -> <<"1", "9", "-", "0", "1">>
          [] f = "year" -> <<"2", "0">>
          [] OTHER -> <<f>>]

\* the entry that holds exactly the fields of present
EntryWith(present) ==
    [f \in FieldNames |->
        IF f \in present THEN PresentValue[f]
        ELSE IF f \in {"author", "keywords"} THEN [kind |-> "absent"]
        ELSE <<>>]

InitFields ==
    /\ RunAtRest
    /\ arg \in [present : SUBSET FieldNames, drop : {"none"}]
    /\ res = <<>>
    /\ step = "fields"

\* the map of the entry
BuildReplacements ==
    /\ step = "fields"
    /\ res' = <<Replacements(EntryWith(arg.present))>>
    /\ step' = "mapped"
    /\ UNCHANGED <<arg, runVars>>

\* the map of the same entry without one of its fields
DropField ==
    /\ step = "mapped"
    /\ \E f \in arg.present :
          /\ arg' = [arg EXCEPT !.drop = f]
          /\ res' = Append(res, Replacements(EntryWith(arg.present \ {f})))
    /\ step' = "dropped"
    /\ UNCHANGED runVars

NextFields == BuildReplacements \/ DropField

SpecFields == InitFields /\ [][NextFields]_vars

\* the fields of the entry a key of the map is computed from
ReadsOf(k) ==
    CASE k = <<"citekey">> -> {"key"}
      [] k \in {<<"createdDate">>, <<"conditionalFields">>} -> {}
      [] k = <<"lastModified">> -> {"date-modified"}
      [] k = <<"year">> -> {"date", "year"}
      [] k \in {<<"url">>, <<"zoteroLink">>} -> {"url"}
      [] k = <<"authors">> -> {"author"}
      [] k = <<"tags">> -> {"author", "keywords"}
      [] OTHER -> {k[1]}

\* the documented default of a key whose fields are all missing
DocumentedDefault(k) ==
    CASE k = <<"title">> -> UntitledText
      [] k = <<"year">> -> UnknownYearText
      [] k = <<"abstract">> -> NoAbstractText
      [] k = <<"journaltitle">> -> UnknownJournalText
      [] k = <<"citekey">> -> UnknownKeyText
      [] k \in {<<"url">>, <<"zoteroLink">>} -> NoLinkText
      [] k = <<"publisher">> -> UnknownPublisherText
      [] k \in {<<"volume">>, <<"issue">>, <<"pages">>, <<"doi">>} -> NotAvailableText
      [] k = <<"type">> -> UnknownTypeText

DefaultedKeys ==
    KeyNames \ {<<"createdDate">>, <<"lastModified">>, <<"conditionalFields">>,
                <<"authors">>, <<"keywords">>, <<"tags">>}

\* missing fields take their documented defaults, and dropping one field
\* changes the value of no key that is computed from other fields
DefaultsAndIndependence ==
    /\ step \in {"mapped", "dropped"} =>
          \A k \in DefaultedKeys :
              ReadsOf(k) \cap arg.present = {} => res[1][k] = DocumentedDefault(k)
    /\ step = "dropped" =>
          \A k \in KeyNames : arg.drop \notin ReadsOf(k) => res[2][k] = res[1][k]

----------------------------------------------------------------------------
(* C13 *)

----------------------------------------------------------------------------
(* C14 *)

\* The first character of the first name buildAuthorTag finds in one author's
\* text: of the text after the first comma, else of the first word when there
\* are two words or more.
FirstInitialOf(authorStr) ==
    LET trimmed == Trim(authorStr)
    IN  IF \E i \in 1..Len(trimmed) : trimmed[i] = ","
        THEN FirstChar(Trim(SplitChar(trimmed, ",")[2]))
        ELSE LET parts == SplitWS(trimmed)
             IN  IF Len(parts) > 1 THEN FirstChar(parts[1]) ELSE <<>>

\* the characters no tag may hold
TagUnsafe == WhiteSpace \cup InvalidChars \cup {".", "(", ")"}

\* last name and first initial of the authors an author value names, in order
AuthorNames(raw) ==
    IF raw.kind = "string"
    THEN LET authorSplits == SplitAnd(RemoveChars(raw.s, {"{", "}"}))
         IN  [i \in 1..Len(authorSplits) |->
                [last |-> LastNameOf(authorSplits[i]),
                 initial |-> FirstInitialOf(authorSplits[i])]]
    ELSE IF raw.kind = "array"
    THEN [i \in 1..Len(raw.a) |->
            [last |-> raw.a[i].lastName, initial |-> FirstChar(raw.a[i].firstName)]]
    ELSE << [last |-> raw.o.lastName, initial |-> FirstChar(raw.o.firstName)] >>

\* C14 -- author tag format: for every author with a last name, in a string, a
\* sequence or a single structured author, the author tag is "#" followed by
\* the last name and the first character of the first name, sanitized for tag
\* use, and so holds no whitespace and none of / \ : * ? " < > | . ( );
\* "F, N" and "N F" both give "#FN".
C14_AuthorTagFormat ==
    (step = "processed" /\ ~IsUnknownAuthor(arg) /\ ~res.out.threw
        /\ \A i \in 1..Len(AuthorNames(arg)) : AuthorNames(arg)[i].last # <<>>)
        => /\ Len(res.raw) = Len(AuthorNames(arg))
           /\ \A i \in 1..Len(res.raw) :
                 /\ res.raw[i] = <<"#">> \o sanitizeString(
                        AuthorNames(arg)[i].last \o AuthorNames(arg)[i].initial,
                        FALSE, TRUE)
                 /\ \A j \in 1..Len(res.raw[i]) : res.raw[i][j] \notin TagUnsafe

----------------------------------------------------------------------------
(* The keyword tags of keywords values of every shape *)

\* one character of each class the keyword code tells apart
KwAlphabet == {"a", " ", ",", "/", "{", "}"}

\* the keywords a parser may hand over in an array
KwItems == { <<>>, <<"a">>, <<"a", " ", "b">>, <<"a", "/">>, <<" ", "a", ".">> }

MaxKeywords == 2

KeywordValues ==
    {[kind |-> "absent"]}
    \cup {[kind |-> "string", s |-> s] : s \in SeqsUpTo(KwAlphabet, MaxLen)}
    \cup {[kind |-> "array", a |-> a] : a \in SeqsUpTo(KwItems, MaxKeywords)}

InitKeywords ==
    /\ RunAtRest
    /\ arg \in KeywordValues
    /\ res = <<>>
    /\ step = "keywords"

BuildKeywordTags ==
    /\ step = "keywords"
    /\ res' = keywordArray(arg)
    /\ step' = "tagged"
    /\ UNCHANGED <<arg, runVars>>

NextKeywords == BuildKeywordTags

SpecKeywords == InitKeywords /\ [][NextKeywords]_vars

\* the keywords a keywords value names: the trimmed pieces between the commas
\* of a string without its braces (none when nothing but whitespace is left),
\* the items of an array
KeywordsOf(kw) ==
    IF kw.kind = "string"
    THEN LET cleaned == Trim(RemoveChars(kw.s, {"{", "}"}))
             splitted == SplitChar(cleaned, ",")
         IN  IF cleaned = <<>> THEN <<>>
             ELSE [i \in 1..Len(splitted) |-> Trim(splitted[i])]
    ELSE IF kw.kind = "array" THEN kw.a
    ELSE <<>>

----------------------------------------------------------------------------
(* C15 *)

\* C15 -- keyword tags: for keywords given as a comma-separated string or as
\* a sequence, each keyword tag is "#" followed by the keyword sanitized for
\* tag use, so it holds no whitespace and none of / \ : * ? " < > |; and an
\* empty, whitespace-only or braces-only keywords string gives no tag at all.
C15_KeywordTags ==
    step = "tagged" =>
        /\ Len(res) = Len(KeywordsOf(arg))
        /\ \A i \in 1..Len(res) :
              /\ res[i] = <<"#">> \o sanitizeString(KeywordsOf(arg)[i], FALSE, TRUE)
              /\ \A j \in 1..Len(res[i]) :
                    res[i][j] \notin WhiteSpace \cup InvalidChars

----------------------------------------------------------------------------
(* The settings tab, loadSettings, and an import run under the settings *)

Digits == <<"0", "1", "2", "3", "4", "5", "6", "7", "8", "9">>

IsDigit(c) == \E d \in 1..Len(Digits) : Digits[d] = c

DigitValue(c) == (CHOOSE d \in 1..Len(Digits) : Digits[d] = c) - 1

\* the number a run of decimal digits writes
RECURSIVE DecimalValue(_)
DecimalValue(ds) ==
    IF ds = <<>> THEN 0
    ELSE 10 * DecimalValue(SubSeq(ds, 1, Len(ds) - 1)) + DigitValue(ds[Len(ds)])

\* the longest prefix of s made of digits
RECURSIVE LeadingDigits(_)
LeadingDigits(s) ==
    IF s = <<>> \/ ~IsDigit(Head(s)) THEN <<>>
    ELSE <<Head(s)>> \o LeadingDigits(Tail(s))

\* parseInt(text, 10): leading whitespace is skipped, a sign is read, then the
\* digits as far as they go; NaN when there is no digit there
ParseInt(text) ==
    LET s == TrimLeft(text)
        signed == s # <<>> /\ s[1] \in {"-", "+"}
        digits == LeadingDigits(IF signed THEN Tail(s) ELSE s)
    IN  IF digits = <<>> THEN [nan |-> TRUE, value |-> 0]
        ELSE [nan |-> FALSE,
              value |-> IF signed /\ s[1] = "-" THEN 0 - DecimalValue(digits)
                        ELSE DecimalValue(digits)]

\* !isNaN(parsedValue) && parsedValue > 0
AcceptsLimit(text) == ~ParseInt(text).nan /\ ParseInt(text).value > 0

\* what saveSettings stores
SavedData(limit, prefix, directory) ==
    [saved |-> TRUE, entryLimit |-> limit, filePrefix |-> prefix,
     fileDirectory |-> directory]

\* the texts typed into the Entry Limit field
LimitTexts ==
    { <<>>, <<"0">>, <<"1">>, <<"2">>, <<"1", "0">>, <<"-", "1">>, <<"a">>,
      <<" ", "2">>, <<"2", ".", "5">>, <<"3", "a">> }

\* the texts typed into the File Prefix and the File Directory fields
PrefixTexts == { <<>>, <<"P", "_">> }

DirectoryTexts == { <<".", "/">>, <<"d">> }

\* the plugin is loaded with nothing stored; the vault holds one bibliography
\* file and the template, and no notes folder
InitSettings ==
    /\ pc = "idle"
    /\ vaultExt = <<"bib">>
    /\ content = <<[status |-> "unread", entries |-> <<>>]>>
    /\ entryLimit = DEFAULT_SETTINGS.entryLimit
    /\ strict = TRUE
    /\ vault0 = [folder |-> FALSE, notes |-> {}]
    /\ folderExists = FALSE
    /\ notes = {}
    /\ tpl = [host |-> FALSE, inFolder |-> FALSE, atPath |-> TRUE]
    /\ files = <<>>
    /\ fileIdx = 0
    /\ todo = <<>>
    /\ entryIdx = 0
    /\ calls = <<>>
    /\ notices = <<>>
    /\ errors = <<>>
    /\ SettingsAtDefault
    /\ HarnessAtRest

importVars == <<pc, vaultExt, content, strict, folderExists, notes, files,
                fileIdx, todo, entryIdx, tpl, vault0, calls, notices, errors>>

\* settings.ts lines 60-67: the Entry Limit field's onChange
EditEntryLimit ==
    /\ pc = "idle"
    /\ \E text \in LimitTexts :
          /\ entryLimit' = IF AcceptsLimit(text) THEN ParseInt(text).value
                           ELSE entryLimit
          /\ stored' = IF AcceptsLimit(text)
                       THEN SavedData(entryLimit', filePrefix, fileDirectory)
                       ELSE stored
          /\ lastEdit' = [field |-> "entryLimit", text |-> text,
                          before |-> entryLimit, saved |-> AcceptsLimit(text)]
    /\ UNCHANGED <<filePrefix, fileDirectory, importVars, fnVars>>

\* settings.ts lines 78-81: the File Prefix field's onChange
EditFilePrefix ==
    /\ pc = "idle"
    /\ \E value \in PrefixTexts :
          /\ filePrefix' = value
          /\ stored' = SavedData(entryLimit, value, fileDirectory)
          /\ lastEdit' = [field |-> "filePrefix", text |-> value,
                          before |-> entryLimit, saved |-> TRUE]
    /\ UNCHANGED <<entryLimit, fileDirectory, importVars, fnVars>>

\* settings.ts lines 93-96: the File Directory field's onChange
EditFileDirectory ==
    /\ pc = "idle"
    /\ \E value \in DirectoryTexts :
          /\ fileDirectory' = value
          /\ stored' = SavedData(entryLimit, filePrefix, value)
          /\ lastEdit' = [field |-> "fileDirectory", text |-> value,
                          before |-> entryLimit, saved |-> TRUE]
    /\ UNCHANGED <<entryLimit, filePrefix, importVars, fnVars>>

\* main.ts lines 37-40: Object.assign({}, DEFAULT_SETTINGS, await loadData()),
\* when the plugin is loaded again; the settings tab is new
LoadSettings ==
    /\ pc = "idle"
    /\ LET merged == IF stored.saved THEN stored ELSE DEFAULT_SETTINGS
       IN  /\ entryLimit' = merged.entryLimit
           /\ filePrefix' = merged.filePrefix
           /\ fileDirectory' = merged.fileDirectory
    /\ lastEdit' = NoEdit
    /\ UNCHANGED <<stored, importVars, fnVars>>

NextSettings ==
    \/ EditEntryLimit
    \/ EditFilePrefix
    \/ EditFileDirectory
    \/ LoadSettings
    \/ Next

SpecSettings == InitSettings /\ [][NextSettings]_vars

StartsWith(s, prefix) ==
    /\ Len(s) >= Len(prefix)
    /\ SubSeq(s, 1, Len(prefix)) = prefix

\* main.ts line 187: folderPath
folderPath ==
    <<"L", "N", " ", "L", "i", "t", "e", "r", "a", "t", "u", "r", "e", " ",
      "N", "o", "t", "e", "s">>

\* main.ts line 197: `${folderPath}/${fileName}`, the path handed to create
CreatePath(fileName) == folderPath \o <<"/">> \o fileName

\* the file names the run has handed to the store's create
CreatedNames ==
    {calls[i].path : i \in {j \in 1..Len(calls) : calls[j].op = "create"}}

----------------------------------------------------------------------------
(* C16, C17, C18 *)

\* C16 -- file-name prefix setting: with a non-empty filePrefix the file name
\* of every note the run creates starts with the prefix, followed by "LNL";
\* with an empty prefix it starts with "LNL".
C16_PrefixFirst ==
    \A name \in CreatedNames : StartsWith(name, filePrefix \o <<"L", "N", "L">>)

\* C17 -- output directory setting: when fileDirectory names a directory,
\* every note the run creates is created under that directory.
C17_UnderDirectory ==
    fileDirectory # DEFAULT_SETTINGS.fileDirectory =>
        \A name \in CreatedNames :
            StartsWith(CreatePath(name), fileDirectory \o <<"/">>)

\* the text writes a positive integer: digits only (whitespace around them
\* aside) and not zero
PositiveIntegerText(text) ==
    /\ Trim(text) # <<>>
    /\ \A i \in 1..Len(Trim(text)) : IsDigit(Trim(text)[i])
    /\ DecimalValue(Trim(text)) >= 1

\* entryLimit is an integer and at least 1
EntryLimitValid == entryLimit \in Nat /\ entryLimit >= 1

\* C18 -- from the default 5, after any Entry Limit edits with arbitrary text
\* and any loadSettings, entryLimit is an integer of at least 1; and an edit
\* whose text is not a positive integer leaves entryLimit as it was and
\* saves nothing.
C18_EntryLimitStaysValid ==
    /\ EntryLimitValid
    /\ (lastEdit.field = "entryLimit" /\ ~PositiveIntegerText(lastEdit.text))
          => (entryLimit = lastEdit.before /\ ~lastEdit.saved)

----------------------------------------------------------------------------
(* C19 *)

\* C19 -- sanitize for tag use: for every input string, sanitizeString with
\* forTags = true (and preserveSpaces left false) returns a string with no
\* whitespace, no two "_" in a row, no "_" at its end and none of
\* / \ : * ? " < > | . ( ); and the empty string gives the empty string.
C19_SanitizeForTags ==
    (step \in {"again", "sanitized"} /\ arg.forTags /\ ~arg.preserveSpaces)
        => LET out == res[1]
           IN  /\ \A i \in 1..Len(out) : out[i] \notin TagUnsafe
               /\ \A i \in 1..(Len(out) - 1) : ~(out[i] = "_" /\ out[i + 1] = "_")
               /\ out # <<>> => out[Len(out)] # "_"
               /\ arg.input = <<>> => out = <<>>

----------------------------------------------------------------------------
(* C20 *)

----------------------------------------------------------------------------
(* The note of an entry: its replacement map, its content and its file name *)

\* the entry of the file-name harness as importBibTeX reads it, the fields the
\* harness does not draw being missing
FullEntry(e) ==
    [f \in FieldNames |->
        IF f \in {"author", "date", "year", "title"} THEN e[f]
        ELSE IF f = "keywords" THEN [kind |-> "absent"]
        ELSE <<>>]

\* a template that shows the year and the title
NoteTemplate ==
    <<"{", "{", "year", "}", "}", "\n", "{", "{", "title", "}", "}">>

InitNote ==
    /\ RunAtRest
    /\ arg \in EntryValues
    /\ res = <<>>
    /\ step = "note"

\* part_002 lines 152-257 for one entry: the map, the populated content, the
\* file name and the two components the name takes from the entry's authors
\* and title
BuildNote ==
    /\ step = "note"
    /\ res' = [threw |-> EntryThrows(arg),
               repl |-> Replacements(FullEntry(arg)),
               content |-> Populate(NoteTemplate, Replacements(FullEntry(arg))),
               author |-> processAuthors(AuthorOf(arg)).fileNameAuthor,
               title |-> TruncatedTitle(TitleOf(arg)),
               name |-> FileName(arg)]
    /\ step' = "noted"
    /\ UNCHANGED <<arg, runVars>>

NextNote == BuildNote

SpecNote == InitNote /\ [][NextNote]_vars

\* the text of s before its first c, all of s when it holds no c
RECURSIVE Before(_, _)
Before(s, c) ==
    IF s = <<>> \/ Head(s) = c THEN <<>>
    ELSE <<Head(s)>> \o Before(Tail(s), c)

\* the first line of a text
FirstLine(text) == Before(text, "\n")

----------------------------------------------------------------------------
(* C21 *)

----------------------------------------------------------------------------
(* C22 *)

\* the word "and", in any letter case, stands in s with whitespace on both
\* sides
HasAndWord(s) ==
    \E i \in 1..(Len(s) - 4) :
        /\ IsWS(s[i])
        /\ ToLower(SubSeq(s, i + 1, i + 3)) = <<"a", "n", "d">>
        /\ IsWS(s[i + 4])

\* the segments of a string author value that are not empty when trimmed
KeptSegments(raw) ==
    SelectSeq(SplitAnd(RemoveChars(raw.s, {"{", "}"})),
              LAMBDA seg : Trim(seg) # <<>>)

\* C22 -- string author splitting: a string author value that names an author
\* is split only at the word "and" between whitespace, in any letter case, so
\* a string without it (a name that merely holds the letters "and" included)
\* is one author; and only the segments that are not empty after trimming
\* give an author and a tag.
C22_AuthorSplitting ==
    (step = "processed" /\ arg.kind = "string" /\ ~IsUnknownAuthor(arg)
        /\ KeptSegments(arg) # <<>>)
        => /\ ~HasAndWord(RemoveChars(arg.s, {"{", "}"})) => Len(res.raw) <= 1
           /\ Len(res.raw) = Len(KeptSegments(arg))
           /\ \A i \in 1..Len(res.raw) :
                 res.raw[i] = <<"#">> \o buildAuthorTag(
                     sanitizeString(Trim(KeptSegments(arg)[i]), FALSE, FALSE))

----------------------------------------------------------------------------
(* C23 *)

\* the author string is the sentinel "Unknown Author" but for its letter case
SentinelButForCase(raw) ==
    /\ raw.kind = "string"
    /\ raw.s # UnknownAuthorText
    /\ ToLower(raw.s) = ToLower(UnknownAuthorText)

\* C23 -- the unknown-author sentinel is case-sensitive: an absent author and
\* the exact string "Unknown Author" give the unknown-author entry; an author
\* string that differs from the sentinel only in letter case is an ordinary
\* name (first name "unknown", last name "author") and gets the tag of that
\* name, not the unknown-author tag.
C23_SentinelCaseSensitive ==
    step = "processed" =>
        /\ (arg.kind = "absent" \/ (arg.kind = "string" /\ arg.s = UnknownAuthorText))
              => /\ res.out.authorTags = << <<"#">> \o UnknownAuthorTag >>
                 /\ res.out.fileNameAuthor = UnknownAuthorTag
        /\ SentinelButForCase(arg)
              => /\ res.out.authorTags =
                        << <<"#">> \o LastNameOf(arg.s) \o FirstInitialOf(arg.s) >>
                 /\ \A i \in 1..Len(res.out.authorTags) :
                       res.out.authorTags[i] # <<"#">> \o UnknownAuthorTag

----------------------------------------------------------------------------
(* C24 *)

\* the template the run has read: the path of its readTemplate call, <<>>
\* when it has read none
TemplateRead ==
    LET reads == SelectSeq(calls, LAMBDA c : c.op = "readTemplate")
    IN  IF reads = <<>> THEN <<>> ELSE reads[1].path

\* the run is past the template step
TemplateResolved == pc \in {"file", "entry"} \/ (pc = "done" /\ HasBib)

\* C24 as stated -- template resolution: the run uses the configured
\* templatePath when the host exposes no template folder and otherwise
\* "bibtex-template.md" in the host's folder; and the configured templatePath
\* is a fallback, so a run whose configured template exists does not end with
\* "template not found".
C24_TemplateWithFallback ==
    TemplateResolved =>
        /\ TemplateRead \in
              {<<>>, IF tpl.host THEN <<"coreTemplateFolder/bibtex-template.md">>
                     ELSE <<"templatePath">>}
        /\ tpl.atPath => TemplateRead # <<>>

\* C24 as amended -- the run reads the configured templatePath when the host
\* exposes no template folder and otherwise "bibtex-template.md" in the
\* host's folder, and nothing else: when the host's folder lacks that file the
\* run ends with "template not found" and reads no template, the configured
\* template existing or not.
C24_TemplateResolution ==
    TemplateResolved =>
        IF tpl.host
        THEN IF tpl.inFolder
             THEN TemplateRead = <<"coreTemplateFolder/bibtex-template.md">>
             ELSE TemplateRead = <<>> /\ pc = "done"
                  /\ notices = <<"TemplateNotFound">>
        ELSE IF tpl.atPath
             THEN TemplateRead = <<"templatePath">>
             ELSE TemplateRead = <<>> /\ pc = "done"
                  /\ notices = <<"TemplateNotFound">>

\* the host's folder holds the template and so does the configured path: the
\* run has read the host's
C24_Witness ==
    /\ pc = "done"
    /\ tpl = [host |-> TRUE, inFolder |-> TRUE, atPath |-> TRUE]
    /\ TemplateRead = <<"coreTemplateFolder/bibtex-template.md">>
    /\ notices = <<"Success">>

----------------------------------------------------------------------------
(* C25 *)

\* the positions in calls of the calls of operation op
CallsAt(op) == {i \in 1..Len(calls) : calls[i].op = op}

\* C25 -- folder before note: every create of a note comes when the folder
\* exists, which it does from the start or since a createFolder earlier in
\* the run; createFolder is called only while the folder does not exist, just
\* before a create, and so at most once in a run.
C25_FolderBeforeNote ==
    /\ \A i \in CallsAt("create") :
          vault0.folder \/ \E j \in CallsAt("createFolder") : j < i
    /\ \A j \in CallsAt("createFolder") :
          /\ ~vault0.folder
          /\ \A k \in CallsAt("createFolder") : k = j
          /\ j < Len(calls) /\ calls[j + 1].op = "create"
    /\ Cardinality(CallsAt("createFolder")) <= 1
    /\ CallsAt("create") # {} => folderExists

\* a run over one file of two entries in a vault without the folder: the
\* folder is created once, before the first note
C25_Witness ==
    /\ Succeeded
    /\ ~vault0.folder
    /\ Len(calls) = 5
    /\ [i \in 1..5 |-> calls[i].op]
          = <<"readTemplate", "read", "createFolder", "create", "create">>
    /\ calls[4].ok /\ calls[5].ok

----------------------------------------------------------------------------
(* C26 *)

\* the whitespace-delimited words of a text
Words(text) == SelectSeq(SplitWS(text), LAMBDA w : w # <<>>)

\* C26 -- title fragment: the title component of the file name is the first
\* three whitespace-delimited words of the title (all of them when there are
\* fewer), joined by single spaces and then sanitized; leading whitespace in
\* the title does not reduce the number of words taken.
C26_TitleFragment ==
    (step = "noted" /\ ~res.threw) =>
        LET words == Words(TitleOf(arg))
        IN  res.title = sanitizeString(
                Join(SubSeq(words, 1, Min(TitleWords, Len(words))), <<" ">>),
                TRUE, FALSE)

----------------------------------------------------------------------------
(* C27 *)

\* the run is over: it returned, or its promise was rejected
RunEnded == pc \in {"done", "crashed"}

\* C27 -- end-of-run notice: a run issues no notice before it ends and exactly
\* one when it ends; when a source file and the template were found that
\* notice is the success notice, however many files failed and even when no
\* note was written.
C27_OneNotice ==
    /\ ~RunEnded => notices = <<>>
    /\ RunEnded => Len(notices) = 1
    /\ (RunEnded /\ HasBib /\ TemplateFound(tpl)) => notices = <<"Success">>

----------------------------------------------------------------------------
(* C28 *)

\* the positions in calls of the rejected creates
RejectedAt == {i \in CallsAt("create") : ~calls[i].ok}

\* C28 -- entry-level failure scope: after the create of an entry of a file
\* is rejected no later entry of that file reaches the store; the notes
\* created before, in this file and in earlier ones, and the notes the store
\* started with are still there; and every later file of the list is read.
C28_EntryFailureScope ==
    /\ \A i \in RejectedAt : \A j \in (i + 1)..Len(calls) :
          calls[j].file # calls[i].file
    /\ vault0.notes \subseteq notes
    /\ \A i \in CallsAt("create") : calls[i].ok => calls[i].path \in notes
    /\ pc = "done" =>
          \A i \in RejectedAt : \A k \in 1..Len(files) :
             (\E m \in 1..(k - 1) : files[m] = calls[i].file)
                => CallsOf("read", files[k]) # <<>>

\* the second entry of the first file is rejected after its first was written,
\* and the first entry of the second file is rejected with one more to come
C28_Witness ==
    /\ Succeeded
    /\ Len(files) = 2
    /\ entryLimit >= 2
    /\ Len(content[files[1]].entries) = 2
    /\ Len(content[files[2]].entries) = 2
    /\ Len(CallsOf("create", files[1])) = 2
    /\ CallsOf("create", files[1])[1].ok
    /\ ~CallsOf("create", files[1])[2].ok
    /\ CallsOf("create", files[1])[1].path \in notes
    /\ Len(CallsOf("create", files[2])) = 1
    /\ ~CallsOf("create", files[2])[1].ok

----------------------------------------------------------------------------
(* Running the import twice *)

\* One vault with a template in place and only bibliography files; the record
\* of the first run is kept in res.
InitRerun ==
    /\ ImportIdle
    /\ tpl = [host |-> FALSE, inFolder |-> FALSE, atPath |-> TRUE]
    /\ \A i \in 1..Len(vaultExt) : vaultExt[i] = "bib"
    /\ arg = <<>>
    /\ res = <<>>
    /\ step = "first"

\* the command's callback is invoked a second time: the store is as the first
\* run left it, files, template and settings are what they were
RunAgain ==
    /\ step = "first"
    /\ pc = "done"
    /\ res' = [calls |-> calls, content |-> content, notices |-> notices]
    /\ step' = "second"
    /\ pc' = "idle"
    /\ content' = [i \in 1..Len(vaultExt) |-> [status |-> "unread", entries |-> <<>>]]
    /\ vault0' = [folder |-> folderExists, notes |-> notes]
    /\ files' = <<>>
    /\ fileIdx' = 0
    /\ todo' = <<>>
    /\ entryIdx' = 0
    /\ calls' = <<>>
    /\ notices' = <<>>
    /\ errors' = <<>>
    /\ UNCHANGED <<vaultExt, entryLimit, strict, folderExists, notes, tpl, arg,
                   setVars>>

\* the second run reads from each file what the first run read from it
ReadFileAgain ==
    /\ step = "second"
    /\ ReadFile
    /\ content'[files[fileIdx]] = res.content[files[fileIdx]]

FirstRun == step = "first" /\ Next

SecondRun ==
    /\ step = "second"
    /\ \/ ScanVault
       \/ ResolveTemplate
       \/ ReadFileAgain
       \/ ProcessEntry
       \/ EndFile
       \/ FinishImport

NextRerun ==
    \/ FirstRun
    \/ RunAgain
    \/ SecondRun

SpecRerun == InitRerun /\ [][NextRerun]_vars

\* the paths of the creates among the calls cs that came from vault file f
CreatePathsOf(cs, f) ==
    LET made == SelectSeq(cs, LAMBDA c : c.op = "create" /\ c.file = f)
    IN  [i \in 1..Len(made) |-> made[i].path]

\* the paths of all the creates among the calls cs, in order
CreatePaths(cs) ==
    LET made == SelectSeq(cs, LAMBDA c : c.op = "create")
    IN  [i \in 1..Len(made) |-> made[i].path]

\* both runs are over, each with its files read
BothRunsDone == step = "second" /\ pc = "done"

----------------------------------------------------------------------------
(* C29 *)

----------------------------------------------------------------------------
(* The variant with a combineEntries setting: importBibTeX and
   generateMarkdownFromEntry *)

\* The entries of this variant's files: fields title, date and year (an empty
\* text is an absent field); no author, no other field.
CombinedPool ==
    << [title |-> <<"T", "\"">>, date |-> <<"1", "9", "-", "0", "1">>, year |-> <<>>],
       [title |-> <<>>, date |-> <<>>, year |-> <<"2", "0">>] >>

\* what new Date().toISOString().split("T")[0] gives, day after day
Dates == <<"2024-01-01", "2024-01-02">>

\* the template's text
CombinedTemplate ==
    <<"{", "{", "title", "}", "}", " ", "{", "{", " ", "year", "}", "}", " ",
      "{", "{", "k", "}", "}">>

\* "\n\n---\n\n"
Separator == <<"\n", "\n", "-", "-", "-", "\n", "\n">>

\* str.replace(/"/g, `\\"`)
RECURSIVE escapeYAML(_)
escapeYAML(str) ==
    IF str = <<>> THEN <<>>
    ELSE (IF Head(str) = "\"" THEN <<"\\", "\"">> ELSE <<Head(str)>>)
            \o escapeYAML(Tail(str))

Quoted(s) == <<"\"">> \o s \o <<"\"">>

\* the replacements of generateMarkdownFromEntry for an entry without type,
\* author, abstract, journaltitle and keywords
CombinedReplacements(entry) ==
    LET title == IF entry.title # <<>> THEN Quoted(escapeYAML(entry.title))
                 ELSE Quoted(<<"Untitled">>)
    IN  [k \in {<<"type">>, <<"authors">>, <<"title">>, <<"year">>, <<"abstract">>,
                <<"journaltitle">>, <<"keywords">>} |->
            CASE k = <<"type">> -> Quoted(<<"Unknown Type">>)
              [] k = <<"authors">> -> Quoted(<<"Unknown Author">>)
              [] k = <<"title">> -> title
              [] k = <<"year">> -> YearOf(entry)
              [] k = <<"abstract">> -> Quoted(<<"No abstract provided.">>)
              [] k = <<"journaltitle">> -> Quoted(<<"Unknown Journal">>)
              [] OTHER -> Quoted(<<"None">>)]

\* generateMarkdownFromEntry(entry, templateContent)
generateMarkdownFromEntry(entry, templateContent) ==
    Populate(templateContent, CombinedReplacements(entry))

\* Only the first note of the file.
FirstNoteOnly(made) == IF made = <<>> THEN <<>> ELSE made[1]

\* parsedEntries.map(...).join("\n\n---\n\n")
combinedContent(made) == Join(made, Separator)

\* `LN Literature Notes/LN Combined Entries ${date}.md`
CombinedPath(date) ==
    <<"LN Literature Notes/", "LN Combined Entries ", date, ".", "m", "d">>

\* `LN Literature Notes/LN ${sanitizedAuthors} ${year} ${sanitizedTitle}.md`
\* of an entry without author; the titles are shorter than the 50 characters
\* slice keeps
SeparatePath(entry) ==
    LET title == IF entry.title # <<>> THEN entry.title ELSE <<"Untitled">>
        sanitizedTitle == [i \in 1..Len(title) |->
                              IF title[i] \in InvalidChars THEN "_" ELSE title[i]]
    IN  <<"LN Literature Notes/", "LN ", "Unknown Author", " ">> \o YearOf(entry)
            \o <<" ">> \o sanitizedTitle \o <<".", "m", "d">>

CreateCall(f, path, text, date, ok) ==
    [op |-> "create", file |-> f, path |-> path, content |-> text,
     date |-> date, ok |-> ok]

\* lines 74-94: one create per entry es[k..], up to the first one rejected
RECURSIVE SeparateCreates(_, _, _, _, _, _)
SeparateCreates(es, k, f, date, ns, rejecting) ==
    IF k > Len(es) THEN [calls |-> <<>>, notes |-> ns, failed |-> FALSE]
    ELSE LET entry == CombinedPool[es[k]]
             path == SeparatePath(entry)
             text == generateMarkdownFromEntry(entry, CombinedTemplate)
         IN  IF CreateRejects(rejecting, path, ns)
             THEN [calls |-> <<CreateCall(f, path, text, date, FALSE)>>,
                   notes |-> ns, failed |-> TRUE]
             ELSE LET rest == SeparateCreates(es, k + 1, f, date,
                                              ns \cup {path}, rejecting)
                  IN  [calls |-> <<CreateCall(f, path, text, date, TRUE)>> \o rest.calls,
                       notes |-> rest.notes, failed |-> rest.failed]

\* lines 66-72: one create for the file
CombinedCreate(es, f, date, ns, rejecting) ==
    LET made == [k \in 1..Len(es) |->
                    generateMarkdownFromEntry(CombinedPool[es[k]], CombinedTemplate)]
        path == CombinedPath(date)
        rejected == CreateRejects(rejecting, path, ns)
    IN  [calls |-> <<CreateCall(f, path, combinedContent(made), date, ~rejected)>>,
         notes |-> IF rejected THEN ns ELSE ns \cup {path},
         failed |-> rejected]

\* what a source file holds: it cannot be read or parsed, or its entries
SourceFiles ==
    {[status |-> "fail", entries |-> <<>>]}
        \cup {[status |-> "ok", entries |-> es] :
                 es \in SeqsUpTo(1..Len(CombinedPool), MaxEntries)}

InitCombined ==
    /\ RunAtRest
    /\ arg \in [files : SeqsUpTo(SourceFiles, MaxFiles),
                maxEntries : 1..MaxLimit,
                combineEntries : BOOLEAN,
                rejecting : BOOLEAN]
    /\ res = [i |-> 0, day |-> 1, calls |-> <<>>, notes |-> {}, notices |-> <<>>,
              errors |-> <<>>]
    /\ step = "combined"

\* lines 45-58: no files: notice; no template: notice; the template's read
\* is outside every try
StartCombined ==
    /\ step = "combined"
    /\ IF arg.files = <<>>
       THEN /\ res' = [res EXCEPT !.notices = Append(@, "NoFiles")]
            /\ step' = "done"
       ELSE \E template \in {"missing", "unreadable", "read"} :
               CASE template = "missing" ->
                       /\ res' = [res EXCEPT !.notices = Append(@, "TemplateNotFound")]
                       /\ step' = "done"
                 [] template = "unreadable" ->
                       /\ res' = res
                       /\ step' = "crashed"
                 [] OTHER ->
                       /\ res' = [res EXCEPT !.i = 1]
                       /\ step' = "files"
    /\ UNCHANGED <<arg, runVars>>

\* lines 60-98: one file; the clock may have passed midnight since the last
CombinedFile ==
    /\ step = "files"
    /\ res.i <= Len(arg.files)
    /\ \E d \in res.day..Min(res.day + 1, Len(Dates)) :
          LET file == arg.files[res.i]
              parsedEntries == EntriesToProcess(file.entries, arg.maxEntries)
              done == IF arg.combineEntries
                      THEN CombinedCreate(parsedEntries, res.i, Dates[d],
                                          res.notes, arg.rejecting)
                      ELSE SeparateCreates(parsedEntries, 1, res.i, Dates[d],
                                           res.notes, arg.rejecting)
          IN  IF file.status # "ok"
              THEN res' = [res EXCEPT !.i = @ + 1, !.day = d,
                                      !.errors = Append(@, res.i)]
              ELSE res' = [res EXCEPT !.i = @ + 1, !.day = d,
                                      !.calls = @ \o done.calls,
                                      !.notes = done.notes,
                                      !.errors = IF done.failed
                                                 THEN Append(@, res.i) ELSE @]
    /\ UNCHANGED <<arg, step, runVars>>

\* line 100
FinishCombined ==
    /\ step = "files"
    /\ res.i > Len(arg.files)
    /\ res' = [res EXCEPT !.notices = Append(@, "Success")]
    /\ step' = "done"
    /\ UNCHANGED <<arg, runVars>>

NextCombined ==
    \/ StartCombined
    \/ CombinedFile
    \/ FinishCombined

SpecCombined == InitCombined /\ [][NextCombined]_vars

\* the creates that came from file f
CreatesOfFile(f) == SelectSeq(res.calls, LAMBDA c : c.file = f)

\* the populated notes of the first maxEntries entries of file f
NotesOfFile(f) ==
    LET es == arg.files[f].entries
        n == Min(arg.maxEntries, Len(es))
    IN  [k \in 1..n |-> Populate(CombinedTemplate, CombinedReplacements(CombinedPool[es[k]]))]

\* a run in combined mode that went through all its files
CombinedRunDone ==
    step = "done" /\ arg.combineEntries /\ res.notices = <<"Success">>

----------------------------------------------------------------------------
(* C30 *)

====
